---- MODULE Spec2Model ----
(***************************************************************************)
(* State machine of src/main.js: a scrolling layered-noise terrain, its    *)
(* parametric surface grid, and the snowboard / camera that follow it.     *)
(*                                                                         *)
(* Numbers are fixed-point integers in thousandths (1.0 = 1000): lengths,  *)
(* heights, scales, amplitudes, speed and unit-vector components.  Clock   *)
(* values are milliseconds, as performance.now() gives them.  A noise      *)
(* sample is in tenths (-10 .. 10 for -1.0 .. 1.0).                        *)
(*                                                                         *)
(* JavaScript runs each callback to completion, so every action below is   *)
(* one whole callback: a frame (animate), a control-panel edit with its    *)
(* onChange handler, or the regenerate button.  Settings that only touch   *)
(* the material, the window size, the camera pitch, the board tilt or the  *)
(* active camera never reach the height function and are left out.         *)
(***************************************************************************)
EXTENDS Integers, Sequences, FiniteSets, TLC

VARIABLES
    params,              \* the shared settings object (main.js 18-57)
    snowboardParams,     \* board dimensions and standoff (main.js 60-67)
    noise2D,             \* identity of the current noise generator
    timeOffset,          \* scroll offset
    lastTime,            \* clock value of the previous frame
    geometry,            \* the current surface grid
    surface,             \* the terrain mesh: which grid it shows
    built,               \* ids of every grid constructed so far
    disposed,            \* ids of the grids that were disposed
    snowboarderPosition, \* the viewpoint anchor
    snowboarderCamera,   \* the follow camera
    snowboard,           \* the board mesh: position and orientation basis
    placement,           \* values computed by the last updateSnowboarderView
    started,             \* the first animate() call (main.js 414) has run
    positionBuffer       \* vertex buffer materialised by BuildSurface

vars == <<params, snowboardParams, noise2D, timeOffset, lastTime, geometry,
          surface, built, disposed, snowboarderPosition, snowboarderCamera,
          snowboard, placement, started, positionBuffer>>

----------------------------------------------------------------------------
(* Bounds of the model *)

\* grids constructed in one run, the initial one included
MaxBuilds == 5
\* clock horizon, in seconds
MaxTime == 2
\* largest slices / stacks count given to the surface build in SurfaceSpec
MaxRes == 3

----------------------------------------------------------------------------
(* Program constants *)

DefaultParams ==
    [ terrainWidth |-> 20000, terrainLength |-> 20000, resolution |-> 100,
      baseHeight |-> 3000,
      mountainScale |-> 150, mountainHeight |-> 780,
      hillScale |-> 400, hillHeight |-> 20,
      roughScale |-> 800, roughHeight |-> 50,
      snowboarderHeight |-> 500,
      speed |-> 1000, isMoving |-> TRUE ]

DefaultSnowboardParams ==
    [ length |-> 1600, width |-> 300, thickness |-> 50, bevelSize |-> 20,
      distanceFromCamera |-> 1500 ]

\* epsilon of the finite differences
Epsilon == 100

\* the range each control-panel controller is created with: <<min, max>>
ControllerRange ==
    [ terrainWidth |-> <<10000, 50000>>, terrainLength |-> <<10000, 50000>>,
      resolution |-> <<50, 200>>, baseHeight |-> <<0, 10000>>,
      mountainScale |-> <<10, 500>>, mountainHeight |-> <<0, 10000>>,
      hillScale |-> <<100, 1000>>, hillHeight |-> <<0, 5000>>,
      roughScale |-> <<100, 2000>>, roughHeight |-> <<0, 2000>>,
      speed |-> <<0, 20000>>, snowboarderHeight |-> <<500, 5000>>,
      distanceFromCamera |-> <<500, 3000>> ]

\* controllers whose onChange is updateGeometry
TerrainControllers ==
    { "terrainWidth", "terrainLength", "resolution", "baseHeight",
      "mountainScale", "mountainHeight", "hillScale", "hillHeight",
      "roughScale", "roughHeight" }

----------------------------------------------------------------------------
(* Inputs: the values a user asks a controller for, the frame intervals    *)
(* and the noise generators createNoise2D can return.                      *)

Requested ==
    [ terrainWidth |-> {30000}, terrainLength |-> {10000},
      resolution |-> {0, 51}, baseHeight |-> {0},
      mountainScale |-> {-150}, mountainHeight |-> {0},
      hillScale |-> {400}, hillHeight |-> {0},
      roughScale |-> {800}, roughHeight |-> {0},
      speed |-> {2000}, snowboarderHeight |-> {1500},
      distanceFromCamera |-> {800} ]

DeltaTimes == {0, 1000}

Seeds == {1, 2}

----------------------------------------------------------------------------
(* Vectors (THREE.Vector3) *)

Vec(x, y, z) == [x |-> x, y |-> y, z |-> z]

Add(a, b) == Vec(a.x + b.x, a.y + b.y, a.z + b.z)

MultiplyScalar(a, k) == Vec(a.x * k, a.y * k, a.z * k)

RECURSIVE SqrtSearch(_, _, _)
SqrtSearch(n, lo, hi) ==
    IF lo >= hi THEN lo
    ELSE LET mid == (lo + hi + 1) \div 2
         IN  IF mid * mid <= n THEN SqrtSearch(n, mid, hi)
             ELSE SqrtSearch(n, lo, mid - 1)

\* Math.sqrt, rounded down
Sqrt(n) == SqrtSearch(n, 0, IF n < 46340 THEN n ELSE 46340)

Length(a) == Sqrt(a.x * a.x + a.y * a.y + a.z * a.z)

\* Vector3.normalize: divideScalar(length() || 1); the result has length 1000 (1.0)
Normalize(a) ==
    LET len == Length(a)
    IN  IF len = 0 THEN a
        ELSE Vec((a.x * 1000) \div len, (a.y * 1000) \div len, (a.z * 1000) \div len)

\* Vector3.cross of two vectors of length 1000 (1.0)
Cross(a, b) ==
    Vec((a.y * b.z - a.z * b.y) \div 1000,
        (a.z * b.x - a.x * b.z) \div 1000,
        (a.x * b.y - a.y * b.x) \div 1000)

----------------------------------------------------------------------------
(* NoiseField and HeightFunction *)

\* One sample of the generator createNoise2D returned, in tenths.  The
\* generator is a library object: all the program relies on is that a sample
\* is a fixed function of the generator and the point, within -1.0 .. 1.0.
\* Here it is a lattice hash over cells of 0.01 x 0.01.
Noise2D(seed, a, b) ==
    (((a \div 10000) * 7 + (b \div 10000) * 13 + seed * 5) % 21) - 10

\* The settings the height function reads
TerrainParams(p) ==
    [ baseHeight |-> p.baseHeight,
      mountainScale |-> p.mountainScale, mountainHeight |-> p.mountainHeight,
      hillScale |-> p.hillScale, hillHeight |-> p.hillHeight,
      roughScale |-> p.roughScale, roughHeight |-> p.roughHeight ]

\* What a call of getTerrainHeight reads besides its arguments
HeightEnv(off, seed, p) ==
    [timeOffset |-> off, noise2D |-> seed, params |-> TerrainParams(p)]

\* getTerrainHeight(x, z) under environment e
GetTerrainHeight(e, x, z) ==
    LET offsetZ == z + e.timeOffset
        p == e.params
        mountains ==
            (Noise2D(e.noise2D, x * p.mountainScale, offsetZ * p.mountainScale)
                * p.mountainHeight) \div 10
        hills ==
            (Noise2D(e.noise2D, x * p.hillScale, offsetZ * p.hillScale)
                * p.hillHeight) \div 10
        roughness ==
            (Noise2D(e.noise2D, x * p.roughScale, offsetZ * p.roughScale)
                * p.roughHeight) \div 10
    IN  p.baseHeight + mountains + hills + roughness

----------------------------------------------------------------------------
(* SurfaceSampler *)

\* fault model: the lattice is not centred on the origin
SurfaceFunctionUncentred(e, width, length, u, v) ==
    LET x == (u * width) \div 1000
        z == (v * length) \div 1000
    IN  Vec(x, GetTerrainHeight(e, x, z), z)

\* surfaceFunction(u, v, target) with u, v in thousandths of the unit interval
SurfaceFunction(e, width, length, u, v) ==
    LET x == ((u - 500) * width) \div 1000
        z == ((v - 500) * length) \div 1000
    IN  Vec(x, GetTerrainHeight(e, x, z), z)

\* The grid object new ParametricGeometry(surfaceFunction, slices, stacks)
\* returns.  Its buffer is a function of what surfaceFunction read while the
\* constructor ran, so the object is kept as those values; Vertices gives
\* the buffer.
ParametricGeometry(id, e, width, length, slices, stacks) ==
    [ id |-> id, env |-> e, width |-> width, length |-> length,
      slices |-> slices, stacks |-> stacks ]

RECURSIVE Row(_, _, _, _)
\* the constructor's inner loop (three.js ParametricGeometry):
\* for (j = 0; j <= slices; j++) { u = j / slices; func(u, v, p0); push p0 }
Row(g, i, j, acc) ==
    IF j > g.slices THEN acc
    ELSE Row(g, i, j + 1,
             Append(acc, SurfaceFunction(g.env, g.width, g.length,
                                         (j * 1000) \div g.slices,
                                         (i * 1000) \div g.stacks)))

RECURSIVE Rows(_, _, _)
\* the constructor's outer loop: for (i = 0; i <= stacks; i++) { v = i / stacks; ... }
Rows(g, i, acc) ==
    IF i > g.stacks THEN acc ELSE Rows(g, i + 1, Row(g, i, 0, acc))

\* the position buffer of grid g, in push order
Vertices(g) == Rows(g, 0, <<>>)

----------------------------------------------------------------------------
(* The program's mutable objects, gathered so that a callback is a         *)
(* composition of the functions it calls, in the order it calls them.      *)

Machine ==
    [ params |-> params, snowboardParams |-> snowboardParams,
      noise2D |-> noise2D, timeOffset |-> timeOffset, geometry |-> geometry,
      surface |-> surface, built |-> built, disposed |-> disposed,
      snowboarderPosition |-> snowboarderPosition,
      snowboarderCamera |-> snowboarderCamera,
      snowboard |-> snowboard, placement |-> placement ]

Commit(m) ==
    /\ params' = m.params
    /\ snowboardParams' = m.snowboardParams
    /\ noise2D' = m.noise2D
    /\ timeOffset' = m.timeOffset
    /\ geometry' = m.geometry
    /\ surface' = m.surface
    /\ built' = m.built
    /\ disposed' = m.disposed
    /\ snowboarderPosition' = m.snowboarderPosition
    /\ snowboarderCamera' = m.snowboarderCamera
    /\ snowboard' = m.snowboard
    /\ placement' = m.placement

\* the environment a height evaluation sees in machine state m
EnvOf(m) == HeightEnv(m.timeOffset, m.noise2D, m.params)

----------------------------------------------------------------------------
(* TerrainFollower: updateSnowboarderView *)

\* Vector3.applyAxisAngle((0,1,0), Math.PI)
ApplyAxisAngleYPi(a) == Vec(-a.x, a.y, -a.z)

\* fault model: the anchor is put on the terrain, without the ride height
AnchorHeightNoRide(m) ==
    GetTerrainHeight(EnvOf(m), m.snowboarderPosition.x, m.snowboarderPosition.z)

\* getTerrainHeight(snowboarderPosition.x, snowboarderPosition.z)
\*     + params.snowboarderHeight
AnchorHeight(m) ==
    GetTerrainHeight(EnvOf(m), m.snowboarderPosition.x, m.snowboarderPosition.z)
        + m.params.snowboarderHeight

\* bottomOffset = -(thickness + bevelSize) / 2
BottomOffset(sp) == -((sp.thickness + sp.bevelSize) \div 2)

\* the five footprint offsets from the board centre, in the code's order
SampleOffsets(sp) ==
    LET forward == ApplyAxisAngleYPi(Vec(0, 0, 1))
        right == Vec(1, 0, 0)
        halfLength == sp.length \div 2
        halfWidth == sp.width \div 2
        down == Vec(0, BottomOffset(sp), 0)
        edgeOffset == sp.bevelSize
    IN  << Add(Add(MultiplyScalar(forward, halfLength + edgeOffset),
                   MultiplyScalar(right, halfWidth + edgeOffset)), down),
           Add(Add(MultiplyScalar(forward, halfLength + edgeOffset),
                   MultiplyScalar(right, -(halfWidth + edgeOffset))), down),
           Add(Add(MultiplyScalar(forward, -(halfLength + edgeOffset)),
                   MultiplyScalar(right, halfWidth + edgeOffset)), down),
           Add(Add(MultiplyScalar(forward, -(halfLength + edgeOffset)),
                   MultiplyScalar(right, -(halfWidth + edgeOffset))), down),
           down >>

RECURSIVE MaxFrom(_, _, _)
MaxFrom(hs, k, best) ==
    IF k > Len(hs) THEN best
    ELSE MaxFrom(hs, k + 1, IF hs[k] > best THEN hs[k] ELSE best)

\* Math.max(...hs), hs not empty
MathMax(hs) == MaxFrom(hs, 2, hs[1])

RECURSIVE MinFrom(_, _, _)
MinFrom(hs, k, best) ==
    IF k > Len(hs) THEN best
    ELSE MinFrom(hs, k + 1, IF hs[k] < best THEN hs[k] ELSE best)

\* fault model: the lowest sample is taken instead of the highest
RestingHeightLowest(sampleHeights, bottomOffset) ==
    MinFrom(sampleHeights, 2, sampleHeights[1]) - bottomOffset

\* maxHeight = Math.max(...sampleHeights) - bottomOffset
RestingHeight(sampleHeights, bottomOffset) ==
    MathMax(sampleHeights) - bottomOffset

\* fault model: the ride height is added to the board's height
PlaceBoardWithRideHeight(m, boardCenter, maxHeight) ==
    [boardCenter EXCEPT !.y = maxHeight + m.params.snowboarderHeight]

\* boardCenter.y = maxHeight; snowboard.position.copy(boardCenter)
PlaceBoard(m, boardCenter, maxHeight) ==
    [boardCenter EXCEPT !.y = maxHeight]

\* updateSnowboarderView, up to the terrain alignment (the side tilt that
\* follows turns the board about its own forward axis)
UpdateSnowboarderView(m) ==
    LET e == EnvOf(m)
        sp == m.snowboardParams
        position == [m.snowboarderPosition EXCEPT !.y = AnchorHeight(m)]
        boardOffset == ApplyAxisAngleYPi(Vec(0, 0, -sp.distanceFromCamera))
        boardCenter == Add(position, boardOffset)
        offsets == SampleOffsets(sp)
        sampleHeights ==
            [ k \in 1..Len(offsets) |->
                GetTerrainHeight(e, boardCenter.x + offsets[k].x,
                                    boardCenter.z + offsets[k].z) ]
        maxHeight == RestingHeight(sampleHeights, BottomOffset(sp))
        placed == PlaceBoard(m, boardCenter, maxHeight)
        centerHeight == sampleHeights[5]
        forwardHeight == GetTerrainHeight(e, placed.x, placed.z + Epsilon)
        rightHeight == GetTerrainHeight(e, placed.x + Epsilon, placed.z)
        forwardSlope == Normalize(Vec(0, forwardHeight - centerHeight, Epsilon))
        rightSlope == Normalize(Vec(Epsilon, rightHeight - centerHeight, 0))
        normal == Normalize(Cross(rightSlope, forwardSlope))
    IN  [ m EXCEPT
            !.snowboarderPosition = position,
            !.snowboarderCamera = [position |-> position],
            !.snowboard = [ position |-> placed,
                            forward |-> forwardSlope, up |-> normal ],
            !.placement = << [ env |-> e,
                               sampleHeights |-> sampleHeights,
                               forwardHeight |-> forwardHeight,
                               rightHeight |-> rightHeight,
                               forwardSlope |-> forwardSlope,
                               rightSlope |-> rightSlope,
                               normal |-> normal ] >> ]

----------------------------------------------------------------------------
(* updateGeometry *)

\* fault model: the previous grid is not disposed
UpdateGeometryNoDispose(m) ==
    LET g == ParametricGeometry(Cardinality(m.built) + 1, EnvOf(m),
                                m.params.terrainWidth, m.params.terrainLength,
                                m.params.resolution, m.params.resolution)
        position == [m.snowboarderPosition EXCEPT !.y = AnchorHeight(m)]
    IN  UpdateSnowboarderView(
            [ m EXCEPT !.built = m.built \cup {g.id},
                       !.geometry = g,
                       !.surface = [geometry |-> g],
                       !.snowboarderPosition = position,
                       !.snowboarderCamera = [position |-> position] ])

\* dispose the current grid, build and show a new one, put the anchor and
\* the camera on the terrain, place the board
UpdateGeometry(m) ==
    LET g == ParametricGeometry(Cardinality(m.built) + 1, EnvOf(m),
                                m.params.terrainWidth, m.params.terrainLength,
                                m.params.resolution, m.params.resolution)
        position == [m.snowboarderPosition EXCEPT !.y = AnchorHeight(m)]
    IN  UpdateSnowboarderView(
            [ m EXCEPT !.disposed = m.disposed \cup {m.geometry.id},
                       !.built = m.built \cup {g.id},
                       !.geometry = g,
                       !.surface = [geometry |-> g],
                       !.snowboarderPosition = position,
                       !.snowboarderCamera = [position |-> position] ])

----------------------------------------------------------------------------
(* MotionClock and the frame callback: animate *)

\* fault model: the offset advances whether or not motion is enabled
ScrollAlways(m, deltaMs) ==
    m.timeOffset + (m.params.speed * deltaMs) \div 1000

\* if (params.isMoving) timeOffset += params.speed * deltaTime,
\* with deltaTime = (currentTime - lastTime) / 1000
ScrollAfter(m, deltaMs) ==
    IF m.params.isMoving
    THEN m.timeOffset + (m.params.speed * deltaMs) \div 1000
    ELSE m.timeOffset

\* fault model: the frame rebuilds the grid before it advances the offset
AnimateFrameStale(m, deltaMs) ==
    LET rebuilt == IF m.params.isMoving THEN UpdateGeometry(m) ELSE m
        ticked == [rebuilt EXCEPT !.timeOffset = ScrollAfter(m, deltaMs)]
    IN  UpdateSnowboarderView(ticked)

\* the body of animate: tick, rebuild while moving, place the board
AnimateFrame(m, deltaMs) ==
    LET ticked == [m EXCEPT !.timeOffset = ScrollAfter(m, deltaMs)]
        moved == IF m.params.isMoving THEN UpdateGeometry(ticked) ELSE ticked
    IN  UpdateSnowboarderView(moved)

----------------------------------------------------------------------------
(* Initial state: the module body down to line 373, before animate() runs  *)

InitialGeometry(seed) ==
    ParametricGeometry(1, HeightEnv(0, seed, DefaultParams),
                       DefaultParams.terrainWidth, DefaultParams.terrainLength,
                       DefaultParams.resolution, DefaultParams.resolution)

Init ==
    \E seed \in Seeds :
        /\ params = DefaultParams
        /\ snowboardParams = DefaultSnowboardParams
        /\ noise2D = seed
        /\ timeOffset = 0
        /\ lastTime = 0
        /\ geometry = InitialGeometry(seed)
        /\ surface = [geometry |-> InitialGeometry(seed)]
        /\ built = {1}
        /\ disposed = {}
        /\ snowboarderPosition =
             Vec(0, GetTerrainHeight(HeightEnv(0, seed, DefaultParams), 0, 0)
                        + DefaultParams.snowboarderHeight, 0)
        /\ snowboarderCamera =
             [ position |->
                 Vec(0, GetTerrainHeight(HeightEnv(0, seed, DefaultParams), 0, 0)
                            + DefaultParams.snowboarderHeight, 0) ]
        /\ snowboard = [ position |-> Vec(0, 0, 0),
                         forward |-> Vec(0, 0, 1000), up |-> Vec(0, 1000, 0) ]
        /\ placement = <<>>
        /\ started = FALSE
        /\ positionBuffer = <<>>

----------------------------------------------------------------------------
(* Actions *)

CanBuild == Cardinality(built) < MaxBuilds

\* one call of animate, through renderer.render, which draws the state the
\* call leaves: the first is the call on line 414, the later ones are the
\* frames requestAnimationFrame schedules
Animate(deltaMs) ==
    /\ lastTime + deltaMs <= MaxTime * 1000
    /\ params.isMoving => CanBuild
    /\ lastTime' = lastTime + deltaMs
    /\ Commit(AnimateFrame(Machine, deltaMs))
    /\ started' = TRUE
    /\ UNCHANGED positionBuffer

\* what a controller stores for a requested value: the value clamped to the
\* range the controller was created with
Clamp(k, v) ==
    LET min == ControllerRange[k][1]
        max == ControllerRange[k][2]
    IN  IF v < min THEN min ELSE IF v > max THEN max ELSE v

\* a control-panel edit of one of the terrain settings: the controller stores
\* the clamped value and calls onChange, which is updateGeometry.  The handler
\* is run for every request, also one that stores the value already there.
SetTerrainParam(k, v) ==
    /\ started
    /\ CanBuild
    /\ Commit(UpdateGeometry([Machine EXCEPT !.params[k] = Clamp(k, v)]))
    /\ UNCHANGED <<lastTime, started, positionBuffer>>

\* the Speed controller: no onChange
SetSpeed(v) ==
    /\ started
    /\ params' = [params EXCEPT !.speed = Clamp("speed", v)]
    /\ UNCHANGED <<snowboardParams, noise2D, timeOffset, lastTime, geometry,
                   surface, built, disposed, snowboarderPosition,
                   snowboarderCamera, snowboard, placement, started,
                   positionBuffer>>

\* the Toggle Motion checkbox: no onChange
ToggleMotion ==
    /\ started
    /\ params' = [params EXCEPT !.isMoving = ~params.isMoving]
    /\ UNCHANGED <<snowboardParams, noise2D, timeOffset, lastTime, geometry,
                   surface, built, disposed, snowboarderPosition,
                   snowboarderCamera, snowboard, placement, started,
                   positionBuffer>>

\* the Snowboarder Height controller; onChange is updateSnowboarderView
SetSnowboarderHeight(v) ==
    /\ started
    /\ Commit(UpdateSnowboarderView(
           [Machine EXCEPT !.params.snowboarderHeight =
                               Clamp("snowboarderHeight", v)]))
    /\ UNCHANGED <<lastTime, started, positionBuffer>>

\* the Distance from Camera controller; onChange is updateSnowboarderView
SetDistanceFromCamera(v) ==
    /\ started
    /\ Commit(UpdateSnowboarderView(
           [Machine EXCEPT !.snowboardParams.distanceFromCamera =
                               Clamp("distanceFromCamera", v)]))
    /\ UNCHANGED <<lastTime, started, positionBuffer>>

\* params.regenerate: noise2D = createNoise2D(), a generator other than the
\* current one, then updateGeometry()
Regenerate(seed) ==
    /\ started
    /\ CanBuild
    /\ seed # noise2D
    /\ Commit(UpdateGeometry([Machine EXCEPT !.noise2D = seed]))
    /\ UNCHANGED <<lastTime, started, positionBuffer>>

Next ==
    \/ \E deltaMs \in DeltaTimes : Animate(deltaMs)
    \/ \E k \in TerrainControllers : \E v \in Requested[k] : SetTerrainParam(k, v)
    \/ \E v \in Requested.speed : SetSpeed(v)
    \/ ToggleMotion
    \/ \E v \in Requested.snowboarderHeight : SetSnowboarderHeight(v)
    \/ \E v \in Requested.distanceFromCamera : SetDistanceFromCamera(v)
    \/ \E seed \in Seeds : Regenerate(seed)

Spec == Init /\ [][Next]_vars

----------------------------------------------------------------------------
(* The surface build on its own: ParametricGeometry(surfaceFunction, Ru,   *)
(* Rv) for small Ru, Rv, with its position buffer written out.             *)

SurfaceWidths == {10000, 20000}

SurfaceLengths == {10000, 30000}

SurfaceOffsets == {0, 1500}

SurfaceInit ==
    \E seed \in Seeds, off \in SurfaceOffsets, w \in SurfaceWidths,
       l \in SurfaceLengths, ru \in 1..MaxRes, rv \in 1..MaxRes :
        /\ params = [DefaultParams EXCEPT !.terrainWidth = w, !.terrainLength = l]
        /\ snowboardParams = DefaultSnowboardParams
        /\ noise2D = seed
        /\ timeOffset = off
        /\ lastTime = 0
        /\ geometry = ParametricGeometry(1, HeightEnv(off, seed, DefaultParams),
                                         w, l, ru, rv)
        /\ surface = [geometry |-> geometry]
        /\ built = {1}
        /\ disposed = {}
        /\ snowboarderPosition =
             Vec(0, GetTerrainHeight(HeightEnv(off, seed, DefaultParams), 0, 0)
                        + DefaultParams.snowboarderHeight, 0)
        /\ snowboarderCamera = [position |-> snowboarderPosition]
        /\ snowboard = [ position |-> Vec(0, 0, 0),
                         forward |-> Vec(0, 0, 1000), up |-> Vec(0, 1000, 0) ]
        /\ placement = <<>>
        /\ started = FALSE
        /\ positionBuffer = <<>>

\* the constructor's loops fill the buffer
BuildSurface ==
    /\ positionBuffer = <<>>
    /\ positionBuffer' = Vertices(geometry)
    /\ UNCHANGED <<params, snowboardParams, noise2D, timeOffset, lastTime,
                   geometry, surface, built, disposed, snowboarderPosition,
                   snowboarderCamera, snowboard, placement, started>>

SurfaceNext == BuildSurface

SurfaceSpec == SurfaceInit /\ [][SurfaceNext]_vars

----------------------------------------------------------------------------
(* Properties *)

\* the greatest element of a non-empty sequence of numbers
Highest(hs) == CHOOSE h \in {hs[k] : k \in 1..Len(hs)} :
                   \A k \in 1..Len(hs) : h >= hs[k]

\* C1: whenever a frame is drawn (and in every state between frames), the
\* grid the mesh shows, the board placement and the camera height were all
\* computed from the current scroll offset, noise generator and terrain
\* settings; the tick of a frame precedes all of that frame's height
\* evaluations.
FrameSeesOneOffset ==
    started =>
        /\ surface.geometry = geometry
        /\ geometry.env = HeightEnv(timeOffset, noise2D, params)
        /\ placement[1].env = HeightEnv(timeOffset, noise2D, params)
        /\ geometry.width = params.terrainWidth
        /\ geometry.length = params.terrainLength
        /\ geometry.slices = params.resolution
        /\ geometry.stacks = params.resolution
        /\ snowboarderCamera.position.y =
             GetTerrainHeight(geometry.env, 0, 0) + params.snowboarderHeight

\* C1 witness: frames have advanced the offset, a terrain setting was edited,
\* the generator was replaced and motion was switched off
FrameSeesOneOffsetWitness ==
    /\ started
    /\ timeOffset > 0
    /\ params.mountainHeight = 0
    /\ ~params.isMoving
    /\ Cardinality(built) >= 4

\* C2: a step changes the scroll offset to offset + speed * dt when motion
\* is enabled, dt being the clock time the step takes, and leaves it
\* unchanged when motion is disabled.
TickAdvancesOffset ==
    [][ timeOffset' =
          IF params.isMoving
          THEN timeOffset + (params.speed * (lastTime' - lastTime)) \div 1000
          ELSE timeOffset ]_vars

\* C2 witness: the offset was advanced, and time has passed with motion off
TickAdvancesOffsetWitness ==
    /\ started
    /\ ~params.isMoving
    /\ timeOffset = 2000
    /\ lastTime = 2000
    /\ params.speed = 2000

\* C3: the board rests at the maximum of the five footprint samples minus
\* bottomOffset, so never below any sample minus bottomOffset; samples
\* 1.0, 1.2, 0.9, 1.1 and centre 1.0 with bottomOffset -0.05 give 1.25.
RestsOnHighestSample ==
    /\ RestingHeight(<<1000, 1200, 900, 1100, 1000>>, -50) = 1250
    /\ started =>
         LET hs == placement[1].sampleHeights
             b == BottomOffset(snowboardParams)
         IN  /\ Len(hs) = 5
             /\ snowboard.position.y = Highest(hs) - b
             /\ \A k \in 1..5 : snowboard.position.y >= hs[k] - b

\* C3 witness: a placement over uneven terrain whose centre sample is not
\* the highest
RestsOnHighestSampleWitness ==
    /\ started
    /\ \E k \in 1..4 : placement[1].sampleHeights[k] > placement[1].sampleHeights[5]
    /\ \E k \in 1..4 : placement[1].sampleHeights[k] < placement[1].sampleHeights[5]

\* C4 (as stated): the board's height is the maximum of the five samples,
\* minus the half-thickness offset, plus the ride height.
BoardHeightAddsRideHeight ==
    started =>
        snowboard.position.y =
            Highest(placement[1].sampleHeights) - BottomOffset(snowboardParams)
                + params.snowboarderHeight

\* C4 (amended): the board's height is the maximum of the five samples minus
\* the half-thickness offset, with no ride-height term: a change of the ride
\* height leaves the board's height as it was and moves only the anchor, by
\* the amount of the change.
BoardHeightIgnoresRideHeight ==
    [][ (started /\ params'.snowboarderHeight # params.snowboarderHeight) =>
          /\ snowboard'.position.y =
               Highest(placement'[1].sampleHeights) - BottomOffset(snowboardParams')
          /\ snowboard'.position.y = snowboard.position.y
          /\ snowboarderPosition'.y - snowboarderPosition.y =
               params'.snowboarderHeight - params.snowboarderHeight ]_vars

\* C4 witness: the ride height was changed and the board placed again
BoardHeightIgnoresRideHeightWitness ==
    /\ started
    /\ params.snowboarderHeight # DefaultParams.snowboarderHeight
    /\ timeOffset > 0

\* the last placement ran over flat terrain: the five footprint samples and
\* the two finite-difference samples are all equal
FlatUnderBoard ==
    /\ started
    /\ \A k \in 1..5 : placement[1].sampleHeights[k] = placement[1].sampleHeights[5]
    /\ placement[1].forwardHeight = placement[1].sampleHeights[5]
    /\ placement[1].rightHeight = placement[1].sampleHeights[5]

\* C5: over flat terrain the surface normal is the up vector (0, 1, 0) and
\* the forward-slope tangent has no vertical component.
FlatTerrainNormalIsUp ==
    FlatUnderBoard =>
        /\ placement[1].normal = Vec(0, 1000, 0)
        /\ snowboard.up = Vec(0, 1000, 0)
        /\ placement[1].forwardSlope.y = 0

\* a requested value that is no valid configuration: a resolution below 1,
\* a negative band scale
InvalidRequest(k, v) ==
    \/ k = "resolution" /\ v <= 0
    \/ k \in {"mountainScale", "hillScale", "roughScale"} /\ v < 0

\* C6: an edit that asks for an invalid configuration is rejected: the value
\* is not stored, neither as asked nor clamped, and no rebuild runs.
InvalidConfigurationRejected ==
    [][ \A k \in TerrainControllers : \A v \in Requested[k] :
          (InvalidRequest(k, v) /\ SetTerrainParam(k, v)) =>
              UNCHANGED <<params, geometry, built>> ]_vars

\* C7: exactly one grid is live: every grid built but the current one was
\* disposed, the current one was not, it is the most recently built, and the
\* mesh shows it.
OneLiveGrid ==
    /\ built \ disposed = {geometry.id}
    /\ geometry.id = Cardinality(built)
    /\ built = 1..Cardinality(built)
    /\ surface.geometry = geometry

\* C7 witness: the grid was rebuilt by a frame, an edit and a reseed
OneLiveGridWitness ==
    /\ started
    /\ Cardinality(built) >= 4
    /\ params.baseHeight # DefaultParams.baseHeight
    /\ geometry.env.noise2D # 1

\* C8: the build produces (Ru+1)*(Rv+1) points; the point of lattice index
\* (i, j), with u = j/Ru and v = i/Rv, is x = (u-0.5)*width, z = (v-0.5)*length,
\* y = height(x, z) under the current scroll offset; index (0,0) has
\* x = -width/2.
SurfaceGridShape ==
    positionBuffer # <<>> =>
        LET ru == geometry.slices
            rv == geometry.stacks
            e == HeightEnv(timeOffset, noise2D, params)
        IN  /\ Len(positionBuffer) = (ru + 1) * (rv + 1)
            /\ \A i \in 0..rv : \A j \in 0..ru :
                 LET pt == positionBuffer[i * (ru + 1) + j + 1]
                     u == (j * 1000) \div ru
                     v == (i * 1000) \div rv
                 IN  /\ pt.x = ((u - 500) * params.terrainWidth) \div 1000
                     /\ pt.z = ((v - 500) * params.terrainLength) \div 1000
                     /\ pt.y = GetTerrainHeight(e, pt.x, pt.z)
            /\ positionBuffer[1].x = -(params.terrainWidth \div 2)
            /\ positionBuffer[1].z = -(params.terrainLength \div 2)

\* C8 witness: a built grid with different counts along u and v, under a
\* non-zero scroll offset
SurfaceGridShapeWitness ==
    /\ positionBuffer # <<>>
    /\ geometry.slices = 2
    /\ geometry.stacks = 3
    /\ timeOffset > 0
    /\ params.terrainWidth # params.terrainLength

\* C9: the anchor's height is the terrain height at the anchor under the
\* current scroll offset, generator and settings, plus the ride height; the
\* anchor stays at x = 0, z = 0, and the camera sits on the anchor.
AnchorFollowsTerrain ==
    /\ snowboarderPosition.x = 0
    /\ snowboarderPosition.z = 0
    /\ snowboarderPosition.y =
         GetTerrainHeight(HeightEnv(timeOffset, noise2D, params), 0, 0)
             + params.snowboarderHeight
    /\ snowboarderCamera.position = snowboarderPosition

\* C9 witness: after frames, a ride-height edit and a reseed, with the
\* anchor's terrain height different from the board's resting height
AnchorFollowsTerrainWitness ==
    /\ started
    /\ timeOffset > 0
    /\ params.snowboarderHeight # DefaultParams.snowboarderHeight
    /\ params.hillHeight = 0
    /\ snowboarderPosition.y - params.snowboarderHeight
         # snowboard.position.y + BottomOffset(snowboardParams)

====
